---- MODULE Spec2Model ----
(***************************************************************************)
(* Token of Thanks: the token ledger.  POST /api/tokens/send (transfer)    *)
(* and POST /api/rewards/:id/redeem (redeem) run as concurrent request     *)
(* handlers against one shared store.  A handler runs atomically between   *)
(* two awaits; every await of a store call is a point where other          *)
(* handlers run.  The store holds the accounts' tokenBalance, the rewards' *)
(* stock and the transaction collection.                                   *)
(* A transfer that has stored its row calls sendEmail and awaits it before *)
(* it answers; the mail transport may deliver, fail or be unconfigured.    *)
(***************************************************************************)
EXTENDS Integers, Sequences, FiniteSets, TLC

\* ------------------------------------------------------------------ bounds
NumReq == 2          \* request handlers that may be in flight together
MaxStock == 1        \* largest initial stock of the limited reward
MaxTime == 1         \* latest reading of the clock (it starts at 0)

\* ------------------------------------------------------- the stored records
Accounts == {"a", "b", "c"}           \* the User documents of the store
NoUser == "ghost"                     \* an authenticated id with no document
UserIds == Accounts \cup {NoUser}
NoEmail == "nobody"                   \* an e-mail address no account has
Emails == Accounts \cup {NoEmail}     \* an account's e-mail is written as its id

Rewards == {"coffee", "gift", "old"}  \* the Reward documents of the store
NoReward == "none"                    \* a reward id with no document
RewardIds == Rewards \cup {NoReward}

Reqs == 1..NumReq

\* tokenCost of the rewards
tokenCost == [rw \in Rewards |-> IF rw = "coffee" THEN 5 ELSE 4]
\* isActive of the rewards: "old" was withdrawn
isActive == [rw \in Rewards |-> rw # "old"]

\* name and redemptionCode of the rewards; redemptionCode defaults to null
rewardName == [rw \in Rewards |-> IF rw = "coffee" THEN "Coffee Voucher"
                                  ELSE IF rw = "gift" THEN "Gift Card"
                                  ELSE "Old Reward"]
redemptionCode == [rw \in Rewards |-> IF rw = "coffee" THEN "COFFEE-1" ELSE "null"]

\* metadata of a row built without one: the schema's default {}
NoMetadata == [rewardId |-> NoReward, rewardName |-> "none",
               redemptionCode |-> "none"]

\* the longest message POST /send accepts
MaxMessage == 500

VARIABLES
  balance,    \* balance[u]: the stored tokenBalance of account u
  stock,      \* stock[rw]: the stored stock of reward rw (-1 = unlimited)
  log,        \* the TokenTransaction collection, in insertion order
  req,        \* req[r]: position and local documents of request handler r
  resp,       \* resp[r]: the response handler r sent, or NoResp
  balance0,   \* the balances before any request (never changes)
  stock0,     \* the stocks before any request (never changes)
  pre,        \* the store as the last handler started alone found it
  mail,       \* mail[r]: what became of the notification of handler r
  emailConfigured,  \* EMAIL_USER and EMAIL_PASS are set (never changes)
  now,        \* what Date.now() returned when a document was last built
  made,       \* the number of transaction documents built so far
  db,         \* api/index.js: isConnected, connectionPromise, retryCount, ...
  attempt,    \* attempt[k]: the k-th run of the async function in connectDB
  web         \* web[q]: request q to the serverless app

vars == <<balance, stock, log, req, resp, balance0, stock0, pre, mail,
          emailConfigured, now, made, db, attempt, web>>

\* ------------------------------------------- api/index.js: the connection

\* the requests the serverless app serves, the connection attempts connectDB
\* may start, the connection events the driver may emit, and the registrations
\* of the event handlers that are told apart
NumWeb == 3
MaxAttempts == 3
MaxEvents == 2
MaxHandlers == 2
MAX_RETRIES == 3

Webs == 1..NumWeb
Attempts == 1..MaxAttempts

\* connectionPromise = null
NoPromise == 0

\* The module state of api/index.js next to the driver's: isConnected,
\* connectionPromise (the attempt whose promise it holds), retryCount,
\* mongoose.connection.readyState (0 disconnected, 1 connected, 2 connecting,
\* 3 disconnecting), how many times the event handlers are registered,
\* whether the driver lost the connection by itself, how many events it has
\* emitted, how many attempts were started, and MONGODB_URI.
DbWith(uri) ==
  [isConnected |-> FALSE, connectionPromise |-> NoPromise, retryCount |-> 0,
   readyState |-> 0, handlers |-> 0, lost |-> FALSE, events |-> 0,
   started |-> 0, uri |-> uri]

Uris == {"ok", "missing", "malformed"}

\* An attempt: where the async function of connectDB stands, and how its
\* promise settled.
NoAttempt == [pc |-> "unused", outcome |-> "pending"]

\* A request to the serverless app: its position, its path, the layer of the
\* stack it is at, who awaits connectDB for it, the promise awaited, the
\* connectDB calls made for it, whether the promise a call returned was the
\* one of an attempt then in progress, and what came of it: next() calls of
\* the connection middleware, 500s the middleware sent, responses sent in all,
\* and whether a route handler ran.
IdleWeb == [pc |-> "idle", path |-> "none", at |-> 0, kind |-> "none",
            awaiting |-> NoPromise, calls |-> 0, nexts |-> 0, errs |-> 0,
            sent |-> 0, ran |-> FALSE]


\* the body of a response that carries no data
NoBody == [empty |-> TRUE]

NoResp == [op |-> "none", status |-> "none", newBalance |-> 0, errors |-> {},
           body |-> NoBody]
IdleReq == [pc |-> "idle", op |-> "none", caller |-> NoUser, to |-> NoEmail,
            amount |-> 0, msgLen |-> 0, reward |-> NoReward, type |-> "none",
            docId |-> 0, docAt |-> 0, page |-> 0, limit |-> 0, rows |-> << >>,
            seen |-> 0, sent |-> 0, received |-> 0,
            udoc |-> 0, rdoc |-> 0, wdoc |-> 0]
DoneReq == [IdleReq EXCEPT !.pc = "done"]

\* ------------------------------------------------------------ pure helpers

\* errors.array() of the chain: the fields whose validator failed
SendErrors(amount, msgLen) ==
  (IF amount >= 1 THEN {} ELSE {"amount"})
    \cup (IF msgLen >= 1 /\ msgLen <= MaxMessage THEN {} ELSE {"message"})

\* the chain lets an amount of 0 through
ValidSendZero(amount, msgLen) ==
  /\ amount >= 0
  /\ msgLen >= 1
  /\ msgLen <= MaxMessage

\* express-validator chain of POST /send: amount isInt({min: 1}),
\* message trim().isLength({min: 1, max: 500})
ValidSend(amount, msgLen) ==
  /\ amount >= 1
  /\ msgLen >= 1
  /\ msgLen <= MaxMessage

\* the balance check left out
InsufficientBalanceUnchecked(tokenBalance, amount) == FALSE

\* if (sender.tokenBalance < amount) -> 400 Insufficient token balance
InsufficientBalance(tokenBalance, amount) == tokenBalance < amount

\* if (senderId === recipient._id.toString()) -> 400
IsSelf(senderId, recipientId) == senderId = recipientId

\* User.findOne({ email }): the account with that e-mail, or NoUser
FindByEmail(email) == IF email \in Accounts THEN email ELSE NoUser

\* user.updateTokenBalance(delta): the document's field after the mutation;
\* the save that follows writes this value to the store
UpdateTokenBalance(tokenBalance, delta) == tokenBalance + delta

\* the recipient is debited instead of credited
RecipientDeltaNegated(amount) == -amount

\* the deltas POST /send passes for the sender and for the recipient
SenderDelta(amount) == -amount
RecipientDelta(amount) == amount

\* every balance affords every reward
canAffordAlways(rw, userTokenBalance) == TRUE

\* rewardSchema.methods.canAfford
canAfford(rw, userTokenBalance) == userTokenBalance >= tokenCost[rw]

\* the validator looks at the amount only: any amount but 0 passes
AmountValidNonZero(type, value) == value # 0

\* the amount validator of tokenTransactionSchema
AmountValid(type, value) == IF type = "REDEEM" THEN value < 0 ELSE value > 0

\* the row is written as the recipient's RECEIVE
SendRowReceive(senderId, recipientId, amount) ==
  [sender |-> senderId, recipient |-> recipientId, amount |-> amount,
   type |-> "RECEIVE", status |-> "COMPLETED", metadata |-> NoMetadata]

\* new TokenTransaction({...}) of POST /send; status defaults to COMPLETED
SendRow(senderId, recipientId, amount) ==
  [sender |-> senderId, recipient |-> recipientId, amount |-> amount,
   type |-> "SEND", status |-> "COMPLETED", metadata |-> NoMetadata]

\* the row of a redemption is stored as PENDING
RedeemRowPending(userId, rw) ==
  [sender |-> userId, recipient |-> userId, amount |-> -tokenCost[rw],
   type |-> "REDEEM", status |-> "PENDING",
   metadata |-> [rewardId |-> rw, rewardName |-> rewardName[rw],
                 redemptionCode |-> redemptionCode[rw]]]

\* new TokenTransaction({...}) of POST /:id/redeem
RedeemRow(userId, rw) ==
  [sender |-> userId, recipient |-> userId, amount |-> -tokenCost[rw],
   type |-> "REDEEM", status |-> "COMPLETED",
   metadata |-> [rewardId |-> rw, rewardName |-> rewardName[rw],
                 redemptionCode |-> redemptionCode[rw]]]

\* the credentials are not checked: the transport is tried and fails
sendEmailUnchecked(configured, delivered) ==
  IF delivered /\ configured THEN "sent" ELSE "failed"

\* sendEmail({to, subject, html}): nothing is handed to the transport when the
\* credentials are unset; otherwise transporter.sendMail is awaited and its
\* rejection is caught.  It resolves in every case.
sendEmail(configured, delivered) ==
  IF ~configured THEN "skipped" ELSE IF delivered THEN "sent" ELSE "failed"

\* What Date.now() may return when the next document is built: the clock has
\* millisecond resolution, so two documents may get the same reading.
Ticks == {t \in {now, now + 1} : t <= MaxTime}

\* new TokenTransaction({...}) by handler r, whose record becomes q: the
\* document gets its _id, which grows with every document the process builds,
\* and createdAt: Date.now.
NewTransaction(r, q, t) ==
  [req EXCEPT ![r] = [q EXCEPT !.docId = made + 1, !.docAt = t]]

\* The document that the save of handler record q inserts for row.
Stored(row, q) ==
  [id |-> q.docId, createdAt |-> q.docAt, sender |-> row.sender,
   recipient |-> row.recipient, amount |-> row.amount, type |-> row.type,
   status |-> row.status, metadata |-> row.metadata]

\* the stock validator of rewardSchema: min -1
StockValid(value) == value >= -1

\* the stock is decremented whenever it is not 0
RewardRedeemTruthy(docStock) ==
  IF docStock # 0
    THEN [save |-> TRUE, stock |-> docStock - 1]
    ELSE [save |-> FALSE, stock |-> docStock]

\* the stock is decremented by two
RewardRedeemTwice(docStock) ==
  IF docStock > 0
    THEN [save |-> TRUE, stock |-> docStock - 2]
    ELSE [save |-> FALSE, stock |-> docStock]

\* rewardSchema.methods.redeem on a loaded document with stock docStock:
\* whether a save is issued, and the stock the document then holds
RewardRedeem(docStock) ==
  IF docStock > 0
    THEN [save |-> TRUE, stock |-> docStock - 1]
    ELSE [save |-> FALSE, stock |-> docStock]

\* --------------------------------------------------------------- the state

\* a has 10 tokens, b has 5, c has none
Balances10 == [u \in Accounts |-> IF u = "a" THEN 10 ELSE IF u = "b" THEN 5 ELSE 0]
\* a has 20 tokens, b has 5, c has 3
Balances20 == [u \in Accounts |-> IF u = "a" THEN 20 ELSE IF u = "b" THEN 5 ELSE 3]

\* "coffee" has n in stock; the other rewards are unlimited
Stocks(n) == [rw \in Rewards |-> IF rw = "coffee" THEN n ELSE -1]
InitStocks == {Stocks(n) : n \in 1..MaxStock}
InitBalances == {Balances10, Balances20}

Snapshot == [balance |-> balance, stock |-> stock, log |-> log]

\* The store holds balances b and stocks s; the handlers ids are idle.
InitWith(ids, b, s) ==
  /\ balance0 = b
  /\ stock0 = s
  /\ balance = balance0
  /\ stock = stock0
  /\ log = << >>
  /\ req = [r \in ids |-> IdleReq]
  /\ resp = [r \in ids |-> NoResp]
  /\ pre = [balance |-> balance0, stock |-> stock0, log |-> << >>]
  /\ mail = [r \in ids |-> "none"]
  /\ emailConfigured \in BOOLEAN
  /\ now = 0
  /\ made = 0
  /\ db = DbWith("ok")
  /\ attempt = [k \in Attempts |-> NoAttempt]
  /\ web = [q \in Webs |-> IdleWeb]

Init == \E s \in InitStocks : InitWith(Reqs, Balances10, s)

\* res.json / res.status().json: the message names the operation
Respond(r, status, newBalance) ==
  /\ req' = [req EXCEPT ![r] = DoneReq]
  /\ resp' = [resp EXCEPT ![r] = [op |-> req[r].op, status |-> status,
                                  newBalance |-> newBalance, errors |-> {},
                                  body |-> NoBody]]

\* res.json({success: true, ...}) of a route that only reads
RespondBody(r, body) ==
  /\ req' = [req EXCEPT ![r] = DoneReq]
  /\ resp' = [resp EXCEPT ![r] = [op |-> req[r].op, status |-> "OK",
                                  newBalance |-> 0, errors |-> {}, body |-> body]]

\* res.status(400).json({message: 'Validation failed', errors: errors.array()})
RespondInvalid(r, errors) ==
  /\ req' = [req EXCEPT ![r] = DoneReq]
  /\ resp' = [resp EXCEPT ![r] = [op |-> req[r].op, status |-> "ValidationError",
                                  newBalance |-> 0, errors |-> errors,
                                  body |-> NoBody]]

\* what no handler writes
Fixed == UNCHANGED <<balance0, stock0, emailConfigured, db, attempt, web>>

\* what a step that builds no document leaves alone
Frame == Fixed /\ UNCHANGED <<now, made>>

\* ------------------------------------------------------------- POST /send

\* The request arrives and enters the middleware chain (auth, then the
\* validation chains, which run asynchronously).
BeginSend(r, caller, email, amount, msgLen) ==
  /\ req[r].pc = "idle"
  /\ req' = [req EXCEPT ![r] = [IdleReq EXCEPT !.pc = "validate",
               !.op = "send", !.caller = caller, !.to = email,
               !.amount = amount, !.msgLen = msgLen]]
  /\ UNCHANGED <<balance, stock, log, resp, mail>>
  /\ Frame

\* The chains have run and the handler starts: validationResult(req) is
\* answered with 400 when it is not empty; otherwise User.findById(senderId)
\* is issued.
ValidateSend(r) ==
  /\ req[r].pc = "validate"
  /\ IF ~ValidSend(req[r].amount, req[r].msgLen)
       THEN RespondInvalid(r, SendErrors(req[r].amount, req[r].msgLen))
       ELSE /\ req' = [req EXCEPT ![r].pc = "findSender", ![r].msgLen = 0]
            /\ UNCHANGED resp
  /\ UNCHANGED <<balance, stock, log, pre, mail>>
  /\ Frame

\* User.findById(senderId) returns; the balance check; User.findOne is issued.
FindSender(r) ==
  /\ req[r].pc = "findSender"
  /\ IF req[r].caller \notin Accounts
       THEN Respond(r, "NotFound", 0)
       ELSE IF InsufficientBalance(balance[req[r].caller], req[r].amount)
         THEN Respond(r, "InsufficientFunds", 0)
         ELSE /\ req' = [req EXCEPT ![r].pc = "findRecipient",
                                    ![r].udoc = balance[req[r].caller]]
              /\ UNCHANGED resp
  /\ UNCHANGED <<balance, stock, log, pre, mail>>
  /\ Frame

\* User.findOne({email}) returns; the self check; sender.updateTokenBalance(-amount)
\* mutates the sender document and issues its save.
FindRecipient(r) ==
  /\ req[r].pc = "findRecipient"
  /\ LET rcp == FindByEmail(req[r].to) IN
     IF rcp = NoUser
       THEN Respond(r, "NotFound", 0)
       ELSE IF IsSelf(req[r].caller, rcp)
         THEN Respond(r, "InvalidSelfTransfer", 0)
         ELSE /\ req' = [req EXCEPT ![r].pc = "saveSender",
                           ![r].rdoc = balance[rcp],
                           ![r].udoc = UpdateTokenBalance(@, SenderDelta(req[r].amount))]
              /\ UNCHANGED resp
  /\ UNCHANGED <<balance, stock, log, pre, mail>>
  /\ Frame

\* The sender's save commits; recipient.updateTokenBalance(amount) mutates the
\* recipient document and issues its save.
SaveSender(r) ==
  /\ req[r].pc = "saveSender"
  /\ balance' = [balance EXCEPT ![req[r].caller] = req[r].udoc]
  /\ req' = [req EXCEPT ![r].pc = "saveRecipient",
                        ![r].rdoc = UpdateTokenBalance(@, RecipientDelta(req[r].amount))]
  /\ UNCHANGED <<stock, log, resp, pre, mail>>
  /\ Frame

\* sendEmail is called before the transaction document is saved
SaveRecipientNotifies(r) ==
  /\ req[r].pc = "saveRecipient"
  /\ balance' = [balance EXCEPT ![FindByEmail(req[r].to)] = req[r].rdoc]
  /\ \E t \in Ticks :
       /\ now' = t
       /\ req' = NewTransaction(r, [req[r] EXCEPT !.pc = "saveSendRow"], t)
  /\ made' = made + 1
  /\ mail' = [mail EXCEPT ![r] = IF emailConfigured THEN "pending" ELSE "skipped"]
  /\ UNCHANGED <<stock, log, resp, pre>>
  /\ Fixed

\* The recipient's save commits; the transaction document is built and its
\* save is issued.
SaveRecipient(r) ==
  /\ req[r].pc = "saveRecipient"
  /\ balance' = [balance EXCEPT ![FindByEmail(req[r].to)] = req[r].rdoc]
  /\ \E t \in Ticks :
       /\ now' = t
       /\ req' = NewTransaction(r, [req[r] EXCEPT !.pc = "saveSendRow"], t)
  /\ made' = made + 1
  /\ UNCHANGED <<stock, log, resp, pre, mail>>
  /\ Fixed

\* the insert replaces the collection by the new row
SaveSendRowOverwrites(r) ==
  /\ req[r].pc = "saveSendRow"
  /\ LET row == SendRow(req[r].caller, FindByEmail(req[r].to), req[r].amount) IN
     IF AmountValid(row.type, row.amount)
       THEN /\ log' = << Stored(row, req[r]) >>
            /\ IF emailConfigured
                 THEN /\ req' = [req EXCEPT ![r].pc = "email"]
                      /\ mail' = [mail EXCEPT ![r] = "pending"]
                      /\ UNCHANGED resp
                 ELSE /\ mail' = [mail EXCEPT ![r] = sendEmail(FALSE, FALSE)]
                      /\ Respond(r, "OK", req[r].udoc)
       ELSE /\ Respond(r, "ServerError", 0)
            /\ UNCHANGED <<log, mail>>
  /\ UNCHANGED <<balance, stock, pre>>
  /\ Frame

\* transaction.save() validates and inserts the row; sendEmail is called.
\* With the credentials unset it resolves without an await of the transport,
\* and res.json follows at once; otherwise transporter.sendMail is in flight.
SaveSendRow(r) ==
  /\ req[r].pc = "saveSendRow"
  /\ LET row == SendRow(req[r].caller, FindByEmail(req[r].to), req[r].amount) IN
     IF AmountValid(row.type, row.amount)
       THEN /\ log' = Append(log, Stored(row, req[r]))
            /\ IF emailConfigured
                 THEN /\ req' = [req EXCEPT ![r].pc = "email"]
                      /\ mail' = [mail EXCEPT ![r] = "pending"]
                      /\ UNCHANGED resp
                 ELSE /\ mail' = [mail EXCEPT ![r] = sendEmail(FALSE, FALSE)]
                      /\ Respond(r, "OK", req[r].udoc)
       ELSE /\ Respond(r, "ServerError", 0)
            /\ UNCHANGED <<log, mail>>
  /\ UNCHANGED <<balance, stock, pre>>
  /\ Frame

\* a rejected sendMail reaches the handler's outer catch
EmailDoneRejects(r) ==
  /\ req[r].pc = "email"
  /\ \E delivered \in BOOLEAN :
       /\ mail' = [mail EXCEPT ![r] = sendEmail(emailConfigured, delivered)]
       /\ IF delivered THEN Respond(r, "OK", req[r].udoc)
                       ELSE Respond(r, "ServerError", 0)
  /\ UNCHANGED <<balance, stock, log, pre>>
  /\ Frame

\* transporter.sendMail settles, delivered or not; sendEmail resolves (it
\* never rejects); res.json with newBalance: sender.tokenBalance.
EmailDone(r) ==
  /\ req[r].pc = "email"
  /\ \E delivered \in BOOLEAN :
       mail' = [mail EXCEPT ![r] = sendEmail(emailConfigured, delivered)]
  /\ Respond(r, "OK", req[r].udoc)
  /\ UNCHANGED <<balance, stock, log, pre>>
  /\ Frame

\* ------------------------------------------------------ POST /:id/redeem

\* The request arrives; Reward.findById(rewardId) is issued.
BeginRedeem(r, caller, rw) ==
  /\ req[r].pc = "idle"
  /\ req' = [req EXCEPT ![r] = [IdleReq EXCEPT !.pc = "findReward",
               !.op = "redeem", !.caller = caller, !.reward = rw]]
  /\ UNCHANGED <<balance, stock, log, resp, mail>>
  /\ Frame

\* Reward.findById returns; the isActive and stock === 0 checks;
\* User.findById(userId) is issued.
FindReward(r) ==
  /\ req[r].pc = "findReward"
  /\ LET rw == req[r].reward IN
     IF rw \notin Rewards
       THEN Respond(r, "NotFound", 0)
       ELSE IF ~isActive[rw] \/ stock[rw] = 0
         THEN Respond(r, "RewardUnavailable", 0)
         ELSE /\ req' = [req EXCEPT ![r].pc = "findUser", ![r].wdoc = stock[rw]]
              /\ UNCHANGED resp
  /\ UNCHANGED <<balance, stock, log, pre, mail>>
  /\ Frame

\* User.findById returns; the canAfford check; user.updateTokenBalance(-tokenCost)
\* mutates the user document and issues its save.
FindUser(r) ==
  /\ req[r].pc = "findUser"
  /\ IF req[r].caller \notin Accounts
       THEN Respond(r, "NotFound", 0)
       ELSE IF ~canAfford(req[r].reward, balance[req[r].caller])
         THEN Respond(r, "InsufficientFunds", 0)
         ELSE /\ req' = [req EXCEPT ![r].pc = "saveUser",
                           ![r].udoc = UpdateTokenBalance(balance[req[r].caller],
                                                          -tokenCost[req[r].reward])]
              /\ UNCHANGED resp
  /\ UNCHANGED <<balance, stock, log, pre, mail>>
  /\ Frame

\* The user's save commits; reward.redeem() decrements the document's stock and
\* issues its save when the stock is limited, and otherwise returns at once, so
\* that the transaction document is built and its save issued.
SaveUser(r) ==
  /\ req[r].pc = "saveUser"
  /\ balance' = [balance EXCEPT ![req[r].caller] = req[r].udoc]
  /\ LET red == RewardRedeem(req[r].wdoc) IN
     IF red.save
       THEN /\ req' = [req EXCEPT ![r].pc = "saveReward", ![r].wdoc = red.stock]
            /\ UNCHANGED <<now, made>>
       ELSE /\ \E t \in Ticks :
                 /\ now' = t
                 /\ req' = NewTransaction(r, [req[r] EXCEPT !.pc = "saveRedeemRow",
                                                           !.wdoc = red.stock], t)
            /\ made' = made + 1
  /\ UNCHANGED <<stock, log, resp, pre, mail>>
  /\ Fixed

\* The reward's save validates and commits; the transaction document is built
\* and its save issued.
SaveReward(r) ==
  /\ req[r].pc = "saveReward"
  /\ IF StockValid(req[r].wdoc)
       THEN /\ stock' = [stock EXCEPT ![req[r].reward] = req[r].wdoc]
            /\ \E t \in Ticks :
                 /\ now' = t
                 /\ req' = NewTransaction(r, [req[r] EXCEPT !.pc = "saveRedeemRow"], t)
            /\ made' = made + 1
            /\ UNCHANGED resp
       ELSE /\ Respond(r, "ServerError", 0)
            /\ UNCHANGED <<stock, now, made>>
  /\ UNCHANGED <<balance, log, pre, mail>>
  /\ Fixed

\* transaction.save() validates and inserts the row; res.json with
\* newBalance: user.tokenBalance.
SaveRedeemRow(r) ==
  /\ req[r].pc = "saveRedeemRow"
  /\ LET row == RedeemRow(req[r].caller, req[r].reward) IN
     IF AmountValid(row.type, row.amount)
       THEN /\ log' = Append(log, Stored(row, req[r]))
            /\ Respond(r, "OK", req[r].udoc)
       ELSE /\ Respond(r, "ServerError", 0)
            /\ UNCHANGED log
  /\ UNCHANGED <<balance, stock, pre, mail>>
  /\ Frame

\* ------------------------------------------------------- store failures

\* ------------------------------------------------------ read operations

\* The rows the filter {$or: [{sender: userId}, {recipient: userId}]} of
\* getUserHistory and of the history count selects, as positions of the log.
UserRows(userId) ==
  {i \in 1..Len(log) : log[i].sender = userId \/ log[i].recipient = userId}

\* The stored document with the given _id.
Doc(id) == log[CHOOSE i \in 1..Len(log) : log[i].id = id]

\* The _ids of the rows at the positions rows.
DocIds(rows) == {log[i].id : i \in rows}

\* .sort({createdAt: -1}): every order of the documents ids in which createdAt
\* never increases; the store fixes no order among documents of equal
\* createdAt.
SortCreatedAtDesc(ids) ==
  {s \in [1..Cardinality(ids) -> ids] :
     \A i, j \in 1..Cardinality(ids) :
       i < j => s[i] # s[j] /\ Doc(s[i]).createdAt >= Doc(s[j]).createdAt}

\* .limit(limit).skip(skip) of a cursor over s: skip first, then limit.
SkipLimit(s, limit, skip) ==
  SubSeq(s, skip + 1, IF skip + limit < Len(s) THEN skip + limit ELSE Len(s))

\* TokenTransaction.getUserHistory: the pages the query may return.
getUserHistory(userId, limit, skip) ==
  {SkipLimit(s, limit, skip) : s \in SortCreatedAtDesc(DocIds(UserRows(userId)))}

\* the sort of getRecentTransactions is left out: the cursor runs in insertion
\* order
getRecentTransactionsUnsorted(limit) ==
  {SkipLimit([i \in 1..Len(log) |-> log[i].id], limit, 0)}

\* TokenTransaction.getRecentTransactions: the lists the query may return.
getRecentTransactions(limit) ==
  {SkipLimit(s, limit, 0) :
     s \in SortCreatedAtDesc(DocIds({i \in 1..Len(log) : log[i].status = "COMPLETED"}))}

\* A query parameter that the request does not carry.
Absent == 0
DefaultPage == 1
DefaultLimit == 20
DefaultTop == 10

\* parseInt(req.query.x) || d
ParseOr(v, d) == IF v = Absent THEN d ELSE v

\* Math.ceil(total / limit)
Ceil(total, limit) == (total + limit - 1) \div limit

\* $match {transactionType: 'SEND'} and $group {_id: '$key', total: {$sum:
\* '$amount'}}: the total of group u over the first n rows.
RECURSIVE GroupTotal(_, _, _)
GroupTotal(key, u, n) ==
  IF n = 0 THEN 0
  ELSE GroupTotal(key, u, n - 1)
         + (IF log[n].type = "SEND" /\ log[n][key] = u THEN log[n].amount ELSE 0)

\* the groups of the pipeline: one per value of key among the SEND rows
Groups(key) ==
  {[id |-> u, total |-> GroupTotal(key, u, Len(log))] :
     u \in {log[i][key] : i \in {n \in 1..Len(log) : log[n].type = "SEND"}}}

\* $sort {total: -1}: every order in which total never increases.
SortTotalDesc(groups) ==
  {s \in [1..Cardinality(groups) -> groups] :
     \A i, j \in 1..Cardinality(groups) :
       i < j => s[i] # s[j] /\ s[i].total >= s[j].total}

\* The pipeline of GET /leaderboard for type sent or received, up to $limit;
\* $lookup and $unwind keep every group, whose user exists.
aggregateLeaderboard(type, limit) ==
  {SkipLimit(s, limit, 0) :
     s \in SortTotalDesc(Groups(IF type = "sent" THEN "sender" ELSE "recipient"))}

\* GET /history
BeginHistory(r, caller, page, limit) ==
  /\ req[r].pc = "idle"
  /\ req' = [req EXCEPT ![r] = [IdleReq EXCEPT !.pc = "historyFind",
                                               !.op = "history",
                                               !.caller = caller,
                                               !.page = ParseOr(page, DefaultPage),
                                               !.limit = ParseOr(limit, DefaultLimit)]]
  /\ UNCHANGED <<balance, stock, log, resp, mail>>
  /\ Frame

\* await TokenTransaction.getUserHistory(userId, limit, skip)
HistoryFind(r) ==
  /\ req[r].pc = "historyFind"
  /\ \E rows \in getUserHistory(req[r].caller, req[r].limit,
                                (req[r].page - 1) * req[r].limit) :
       req' = [req EXCEPT ![r].pc = "historyCount", ![r].rows = rows,
                          ![r].seen = Len(log)]
  /\ UNCHANGED <<balance, stock, log, resp, pre, mail>>
  /\ Frame

\* the history handler ends without sending its response
HistoryCountSilent(r) ==
  /\ req[r].pc = "historyCount"
  /\ req' = [req EXCEPT ![r] = DoneReq]
  /\ UNCHANGED <<balance, stock, log, resp, pre, mail>>
  /\ Frame

\* await TokenTransaction.countDocuments(...) and res.json
HistoryCount(r) ==
  /\ req[r].pc = "historyCount"
  /\ LET total == Cardinality(UserRows(req[r].caller))
     IN RespondBody(r, [transactions |-> req[r].rows,
                        currentPage |-> req[r].page,
                        totalPages |-> Ceil(total, req[r].limit),
                        totalTransactions |-> total,
                        hasNextPage |-> req[r].page * req[r].limit < total,
                        hasPrevPage |-> req[r].page > 1])
  /\ UNCHANGED <<balance, stock, log, pre, mail>>
  /\ Frame

\* GET /balance
BeginBalance(r, caller) ==
  /\ req[r].pc = "idle"
  /\ req' = [req EXCEPT ![r] = [IdleReq EXCEPT !.pc = "balanceFind",
                                               !.op = "balance",
                                               !.caller = caller]]
  /\ UNCHANGED <<balance, stock, log, resp, mail>>
  /\ Frame

\* await User.findById(...).select('tokenBalance') and the answer
BalanceFind(r) ==
  /\ req[r].pc = "balanceFind"
  /\ IF req[r].caller \in Accounts
       THEN RespondBody(r, [balance |-> balance[req[r].caller]])
       ELSE Respond(r, "UserNotFound", 0)
  /\ UNCHANGED <<balance, stock, log, pre, mail>>
  /\ Frame

\* GET /leaderboard
BeginLeaderboard(r, type, limit) ==
  /\ req[r].pc = "idle"
  /\ req' = [req EXCEPT ![r] = [IdleReq EXCEPT !.pc = "leaderboard",
                                               !.op = "leaderboard",
                                               !.type = type,
                                               !.limit = ParseOr(limit, DefaultTop)]]
  /\ UNCHANGED <<balance, stock, log, resp, mail>>
  /\ Frame

\* the values of the query parameter type: the two the route knows, and one
\* it does not
Types == {"sent", "received", "weekly"}

\* an empty pipeline is passed on to the server, which returns every document
LeaderboardPassesEmpty(r) ==
  /\ req[r].pc = "leaderboard"
  /\ IF req[r].type \in {"sent", "received"}
       THEN \E top \in aggregateLeaderboard(req[r].type, req[r].limit) :
              RespondBody(r, [type |-> req[r].type, leaderboard |-> top])
       ELSE RespondBody(r, [type |-> req[r].type, leaderboard |-> log])
  /\ UNCHANGED <<balance, stock, log, pre, mail>>
  /\ Frame

\* await TokenTransaction.aggregate(pipeline) and res.json.  For a type other
\* than sent and received the pipeline is still []: Mongoose's Aggregate#exec
\* rejects an empty pipeline ("Aggregate has empty pipeline") before anything
\* is sent to the server, and the catch block answers 500.
Leaderboard(r) ==
  /\ req[r].pc = "leaderboard"
  /\ IF req[r].type \in {"sent", "received"}
       THEN \E top \in aggregateLeaderboard(req[r].type, req[r].limit) :
              RespondBody(r, [type |-> req[r].type, leaderboard |-> top])
       ELSE Respond(r, "ServerError", 0)
  /\ UNCHANGED <<balance, stock, log, pre, mail>>
  /\ Frame

\* GET /profile
BeginProfile(r, caller) ==
  /\ req[r].pc = "idle"
  /\ req' = [req EXCEPT ![r] = [IdleReq EXCEPT !.pc = "profileUser",
                                               !.op = "profile",
                                               !.caller = caller]]
  /\ UNCHANGED <<balance, stock, log, resp, mail>>
  /\ Frame

\* await User.findById(req.user.userId).select('-password')
ProfileUser(r) ==
  /\ req[r].pc = "profileUser"
  /\ IF req[r].caller \in Accounts
       THEN /\ req' = [req EXCEPT ![r].pc = "profileSent",
                                  ![r].udoc = balance[req[r].caller]]
            /\ UNCHANGED resp
       ELSE Respond(r, "UserNotFound", 0)
  /\ UNCHANGED <<balance, stock, log, pre, mail>>
  /\ Frame

\* await TokenTransaction.aggregate: the SEND rows the user sent
ProfileSent(r) ==
  /\ req[r].pc = "profileSent"
  /\ req' = [req EXCEPT ![r].pc = "profileReceived",
                        ![r].sent = GroupTotal("sender", req[r].caller, Len(log))]
  /\ UNCHANGED <<balance, stock, log, resp, pre, mail>>
  /\ Frame

\* await TokenTransaction.aggregate: the SEND rows the user received
ProfileReceived(r) ==
  /\ req[r].pc = "profileReceived"
  /\ req' = [req EXCEPT ![r].pc = "profileCount",
                        ![r].received = GroupTotal("recipient", req[r].caller, Len(log))]
  /\ UNCHANGED <<balance, stock, log, resp, pre, mail>>
  /\ Frame

\* await TokenTransaction.countDocuments(...) and res.json
ProfileCount(r) ==
  /\ req[r].pc = "profileCount"
  /\ RespondBody(r, [totalSent |-> req[r].sent,
                     totalReceived |-> req[r].received,
                     totalTransactions |-> Cardinality(UserRows(req[r].caller)),
                     currentBalance |-> req[r].udoc])
  /\ UNCHANGED <<balance, stock, log, pre, mail>>
  /\ Frame

\* A caller of TokenTransaction.getRecentTransactions(limit)
BeginRecent(r, limit) ==
  /\ req[r].pc = "idle"
  /\ req' = [req EXCEPT ![r] = [IdleReq EXCEPT !.pc = "recentFind",
                                               !.op = "recent",
                                               !.limit = limit]]
  /\ UNCHANGED <<balance, stock, log, resp, mail>>
  /\ Frame

\* await TokenTransaction.getRecentTransactions(limit)
RecentFind(r) ==
  /\ req[r].pc = "recentFind"
  /\ \E rows \in getRecentTransactions(req[r].limit) :
       RespondBody(r, [transactions |-> rows, limit |-> req[r].limit])
  /\ UNCHANGED <<balance, stock, log, pre, mail>>
  /\ Frame

AwaitsStore == {"findSender", "findRecipient", "saveSender", "saveRecipient",
                "saveSendRow", "findReward", "findUser", "saveUser", "saveReward",
                "saveRedeemRow", "historyFind", "historyCount", "balanceFind",
                "leaderboard", "profileUser", "profileSent", "profileReceived",
                "profileCount", "recentFind"}

\* The awaited store call rejects instead of committing: the handler's catch
\* block answers 500 and nothing is undone.
StoreThrows(r) ==
  /\ req[r].pc \in AwaitsStore
  /\ Respond(r, "ServerError", 0)
  /\ UNCHANGED <<balance, stock, log, pre, mail>>
  /\ Frame

\* ------------------------------------------------------- specifications

\* The inputs a request may carry.
\* <<caller, recipientEmail, amount, length of the trimmed message>>: 4 tokens
\* from every account to every address, 7 tokens from a to b, a caller whose
\* account is gone, and the edges of the validation
SendInputs ==
  (Accounts \X Emails \X {4} \X {1})
    \cup {<<"a", "b", 7, 1>>, <<NoUser, "b", 4, 1>>, <<"a", "b", 0, 1>>}
    \cup ({"a"} \X {"b"} \X {4} \X {0, MaxMessage, MaxMessage + 1})
\* <<caller, rewardId>>: every account and every reward id, and a caller whose
\* account is gone
RedeemInputs == (Accounts \X RewardIds) \cup {<<NoUser, "gift">>}

\* Handlers are numbered in the order in which their requests arrive.
Arrives(r) == \A q \in DOMAIN req : q < r => req[q].pc # "idle"

StartSend(r) ==
  /\ Arrives(r)
  /\ \E i \in SendInputs : BeginSend(r, i[1], i[2], i[3], i[4])
  /\ UNCHANGED pre

StartRedeem(r) ==
  /\ Arrives(r)
  /\ \E i \in RedeemInputs : BeginRedeem(r, i[1], i[2])
  /\ UNCHANGED pre

Step(r) ==
  \/ ValidateSend(r) \/ FindSender(r) \/ FindRecipient(r) \/ SaveSender(r) \/ SaveRecipient(r)
  \/ SaveSendRow(r) \/ EmailDone(r)
  \/ FindReward(r) \/ FindUser(r) \/ SaveUser(r) \/ SaveReward(r)
  \/ SaveRedeemRow(r)

Next ==
  \E r \in Reqs : StartSend(r) \/ StartRedeem(r) \/ Step(r) \/ StoreThrows(r)

Spec == Init /\ [][Next]_vars

\* The transaction model used on its own: a document of any type and of a
\* small amount is built for account a and saved, next to the two routes.
RowTypes == {"SEND", "RECEIVE", "PURCHASE", "REDEEM"}
RowAmounts == {-1, 0, 1}

\* new TokenTransaction({sender, recipient, amount, transactionType}); its
\* save is issued.
BuildRow(r, type, amount) ==
  /\ req[r].pc = "idle"
  /\ Arrives(r)
  /\ \E t \in Ticks :
       /\ now' = t
       /\ req' = NewTransaction(r, [IdleReq EXCEPT !.pc = "saveRow", !.op = "save",
                    !.caller = "a", !.amount = amount, !.type = type], t)
  /\ made' = made + 1
  /\ UNCHANGED <<balance, stock, log, resp, pre, mail>>
  /\ Fixed

\* save() runs the schema's validators: the document is inserted, or the
\* save rejects with a ValidationError and nothing is stored.
SaveRow(r) ==
  /\ req[r].pc = "saveRow"
  /\ IF AmountValid(req[r].type, req[r].amount)
       THEN /\ log' = Append(log, Stored([sender |-> req[r].caller,
                      recipient |-> req[r].caller, amount |-> req[r].amount,
                      type |-> req[r].type, status |-> "COMPLETED",
                      metadata |-> NoMetadata], req[r]))
            /\ Respond(r, "OK", 0)
       ELSE /\ Respond(r, "Rejected", 0)
            /\ UNCHANGED log
  /\ UNCHANGED <<balance, stock, pre, mail>>
  /\ Frame

NextRows ==
  \/ Next
  \/ \E r \in Reqs :
       \/ \E type \in RowTypes, amount \in RowAmounts : BuildRow(r, type, amount)
       \/ SaveRow(r)

SpecRows == Init /\ [][NextRows]_vars

\* One request at a time: a request starts only when no other is in flight,
\* and the store it finds is remembered in pre.
Quiet == \A q \in DOMAIN req : req[q].pc \in {"idle", "done"}

AloneSend(r) ==
  /\ Quiet
  /\ Arrives(r)
  /\ \E i \in SendInputs : BeginSend(r, i[1], i[2], i[3], i[4])
  /\ pre' = Snapshot

AloneRedeem(r) ==
  /\ Quiet
  /\ Arrives(r)
  /\ \E i \in RedeemInputs : BeginRedeem(r, i[1], i[2])
  /\ pre' = Snapshot

InitSeq == \E b \in InitBalances, s \in InitStocks : InitWith(Reqs, b, s)

NextSeq ==
  \E r \in Reqs : AloneSend(r) \/ AloneRedeem(r) \/ Step(r) \/ StoreThrows(r)

SpecSeq == InitSeq /\ [][NextSeq]_vars

\* Three concurrent transfers of 4 tokens each from account a, which holds 10;
\* no store call fails.
TripleReqs == {1, 2, 3}

SendFour(r) ==
  /\ Arrives(r)
  /\ \E to \in {"b", "c"} : BeginSend(r, "a", to, 4, 1)
  /\ UNCHANGED pre

InitTriple == InitWith(TripleReqs, Balances10, Stocks(1))

NextTriple ==
  \E r \in TripleReqs :
    \/ SendFour(r) \/ ValidateSend(r) \/ FindSender(r) \/ FindRecipient(r) \/ SaveSender(r)
    \/ SaveRecipient(r) \/ SaveSendRow(r) \/ EmailDone(r)

SpecTriple == InitTriple /\ [][NextTriple]_vars

\* Two concurrent redemptions of "coffee", of which one is in stock, by the
\* two users a and b, who can both afford it; no store call fails.
PairReqs == {1, 2}

RedeemCoffee(r) ==
  /\ BeginRedeem(r, IF r = 1 THEN "a" ELSE "b", "coffee")
  /\ UNCHANGED pre

InitStockOne == \E b \in InitBalances : InitWith(PairReqs, b, Stocks(1))

NextStockOne ==
  \E r \in PairReqs :
    \/ RedeemCoffee(r) \/ FindReward(r) \/ FindUser(r) \/ SaveUser(r)
    \/ SaveReward(r) \/ SaveRedeemRow(r)

SpecStockOne == InitStockOne /\ [][NextStockOne]_vars

\* The routes that read, next to two writes in flight together: a transfer of
\* 4 tokens from a to b, and a transfer of 3 or 4 tokens from b to a or a
\* redemption of "coffee" by a.
ReadReqs == {1, 2, 3, 4}
MaxPage == 2
MaxLimit == 2
Pages == {Absent} \cup 1..MaxPage
Limits == {Absent} \cup 1..MaxLimit
Callers == {"a", NoUser}

\* handlers 1 and 2 carry the writes
StartWrite(r) ==
  /\ Arrives(r)
  /\ \/ r = 1 /\ BeginSend(r, "a", "b", 4, 1)
     \/ \E n \in {3, 4} : r = 2 /\ BeginSend(r, "b", "a", n, 1)
     \/ r = 2 /\ BeginRedeem(r, "a", "coffee")
  /\ UNCHANGED pre

\* handler 3 carries any read; handler 4 asks for a page of the history of a
\* once the writes are over, while handler 3 holds a page of it
StartRead(r) ==
  /\ Arrives(r)
  /\ \/ \E u \in Callers, p \in Pages, l \in Limits : r = 3 /\ BeginHistory(r, u, p, l)
     \/ \E p \in 1..MaxPage, l \in 1..MaxLimit :
          /\ r = 4
          /\ req[1].pc = "done" /\ req[2].pc = "done"
          /\ req[3].pc = "historyCount" /\ req[3].caller = "a"
          /\ BeginHistory(r, "a", p, l)
     \/ \E u \in Callers : r = 3 /\ BeginBalance(r, u)
     \/ \E t \in Types, l \in Limits : r = 3 /\ BeginLeaderboard(r, t, l)
     \/ \E u \in Callers : r = 3 /\ BeginProfile(r, u)
     \/ \E l \in 1..MaxLimit : r = 3 /\ BeginRecent(r, l)
  /\ UNCHANGED pre

StepRead(r) ==
  \/ HistoryFind(r) \/ HistoryCount(r) \/ BalanceFind(r) \/ Leaderboard(r)
  \/ ProfileUser(r) \/ ProfileSent(r) \/ ProfileReceived(r) \/ ProfileCount(r)
  \/ RecentFind(r)

InitRead == InitWith(ReadReqs, Balances10, Stocks(1))

NextRead ==
  \E r \in ReadReqs :
    StartWrite(r) \/ StartRead(r) \/ Step(r) \/ StepRead(r) \/ StoreThrows(r)

SpecRead == InitRead /\ [][NextRead]_vars

\* Two requests of any kind in flight together, where every awaited store or
\* notification call eventually returns or throws: a handler that has a step
\* to take eventually takes one.
StartAnyRead(r) ==
  /\ Arrives(r)
  /\ \/ \E u \in Callers, p \in 1..MaxPage : BeginHistory(r, u, p, 1)
     \/ \E u \in Callers : BeginBalance(r, u)
     \/ \E t \in Types : BeginLeaderboard(r, t, Absent)
     \/ \E u \in Callers : BeginProfile(r, u)
     \/ BeginRecent(r, 1)
  /\ UNCHANGED pre

Run(r) == Step(r) \/ StepRead(r) \/ StoreThrows(r)

NextLive ==
  \E r \in Reqs : StartSend(r) \/ StartRedeem(r) \/ StartAnyRead(r) \/ Run(r)

SpecLive == Init /\ [][NextLive]_vars /\ \A r \in Reqs : WF_vars(Run(r))

\* ------------------------------------------- api/index.js: the serverless app

\* what the serverless app's connection code leaves alone
StoreFrame ==
  UNCHANGED <<balance, stock, log, req, resp, balance0, stock0, pre, mail,
              emailConfigured, now, made>>

\* `return;` of an async function: a promise resolved with undefined
Resolved == -1

\* The layers of the app in the order of their registration: app.get('/'),
\* app.get('/api/health'), app.get('/api/db-test'), the five routers, the 404
\* handler on '*', and the connection middleware.  The error-handling
\* middleware takes no request that carries no error.
Stack == <<"root", "health", "dbTest", "routes", "notFound", "connect">>

\* the prefixes the routers are mounted on
Mounted == {"/api/auth", "/api/tokens", "/api/users", "/api/rewards", "/api/feedback"}

Paths == Mounted \cup {"/", "/api/health", "/api/db-test", "/elsewhere"}

\* The catch block of the attempt: retryCount++, isConnected = false,
\* connectionPromise = null.
Caught(d) ==
  [d EXCEPT !.retryCount = @ + 1, !.isConnected = FALSE,
            !.connectionPromise = NoPromise]

\* ... and what the attempt's promise settles to, d being the state after it
Outcome(d) == IF d.retryCount < MAX_RETRIES THEN "null" ELSE "throw"

\* A request arrives.
Request(q, path) ==
  /\ web[q].pc = "idle"
  /\ \A p \in Webs : p < q => web[p].pc # "idle"
  /\ web' = [web EXCEPT ![q] = [IdleWeb EXCEPT !.pc = "walk", !.path = path, !.at = 1]]
  /\ UNCHANGED <<db, attempt>>
  /\ StoreFrame

\* Express hands the request to the layer it is at: a layer that matches
\* answers or starts its handler, any other layer is passed.  Behind the last
\* layer Express answers 404 itself.
Walk(q) ==
  /\ web[q].pc = "walk"
  /\ LET w == web[q]
         answered == [w EXCEPT !.pc = "done", !.sent = @ + 1]
         passed == [w EXCEPT !.at = @ + 1]
     IN \E matched \in BOOLEAN :
          web' = [web EXCEPT ![q] =
            IF w.at > Len(Stack) THEN answered
            ELSE CASE Stack[w.at] = "root" ->
                        IF w.path = "/" THEN answered ELSE passed
                   [] Stack[w.at] = "health" ->
                        IF w.path = "/api/health" THEN answered ELSE passed
                   [] Stack[w.at] = "dbTest" ->
                        IF w.path = "/api/db-test"
                          THEN [w EXCEPT !.pc = "call1", !.kind = "dbTest"]
                          ELSE passed
                   [] Stack[w.at] = "routes" ->
                        IF w.path \in Mounted /\ matched
                          THEN [answered EXCEPT !.ran = TRUE]
                          ELSE passed
                   [] Stack[w.at] = "notFound" -> answered
                   [] Stack[w.at] = "connect" ->
                        [w EXCEPT !.pc = "call1", !.kind = "connect"]]
  /\ UNCHANGED <<db, attempt>>
  /\ StoreFrame

\* The connection middleware is handed a request.
Invoke(q) ==
  /\ web[q].pc = "idle"
  /\ \A p \in Webs : p < q => web[p].pc # "idle"
  /\ web' = [web EXCEPT ![q] = [IdleWeb EXCEPT !.pc = "call1", !.kind = "connect",
                                               !.path = "/api/tokens",
                                               !.at = Len(Stack)]]
  /\ UNCHANGED <<db, attempt>>
  /\ StoreFrame

\* connectDB(): up to the first await of the attempt it may start.
CallConnectDB(q) ==
  /\ web[q].pc \in {"call1", "call2"}
  /\ LET after == IF web[q].pc = "call1" THEN "await1" ELSE "await2"
         k == db.started + 1
         begun == [db EXCEPT !.started = k, !.connectionPromise = k]
     IN IF db.isConnected /\ db.readyState = 1
          THEN /\ web' = [web EXCEPT ![q].pc = after, ![q].calls = @ + 1,
                                     ![q].awaiting = Resolved]
               /\ UNCHANGED <<db, attempt>>
          ELSE IF db.connectionPromise # NoPromise
          THEN /\ web' = [web EXCEPT ![q].pc = after, ![q].calls = @ + 1,
                                     ![q].awaiting = db.connectionPromise]
               /\ UNCHANGED <<db, attempt>>
          ELSE /\ k <= MaxAttempts
               /\ web' = [web EXCEPT ![q].pc = after, ![q].calls = @ + 1,
                                     ![q].awaiting = k]
               /\ IF db.uri # "ok"
                    THEN /\ attempt' = [attempt EXCEPT ![k] =
                                          [pc |-> "settled", outcome |-> Outcome(Caught(db))]]
                         /\ db' = [Caught(db) EXCEPT !.started = k,
                                                     !.connectionPromise = k]
                    ELSE IF db.readyState # 0
                    THEN /\ attempt' = [attempt EXCEPT ![k].pc = "closing"]
                         /\ db' = [begun EXCEPT !.readyState = 3]
                    ELSE IF db.retryCount > 0
                    THEN /\ attempt' = [attempt EXCEPT ![k].pc = "delay"]
                         /\ db' = begun
                    ELSE /\ attempt' = [attempt EXCEPT ![k].pc = "connecting"]
                         /\ db' = [begun EXCEPT !.readyState = 2]
  /\ StoreFrame

\* mongoose.connection.close() is over: the connection is disconnected, the
\* 'disconnected' handlers run if registered, and the attempt goes on to its
\* delay or to mongoose.connect.
CloseDone(k) ==
  /\ attempt[k].pc = "closing"
  /\ LET closed == [db EXCEPT !.lost = FALSE,
                              !.isConnected = IF db.handlers > 0 THEN FALSE ELSE @,
                              !.connectionPromise =
                                 IF db.handlers > 0 THEN NoPromise ELSE @]
     IN IF db.retryCount > 0
          THEN /\ attempt' = [attempt EXCEPT ![k].pc = "delay"]
               /\ db' = [closed EXCEPT !.readyState = 0]
          ELSE /\ attempt' = [attempt EXCEPT ![k].pc = "connecting"]
               /\ db' = [closed EXCEPT !.readyState = 2]
  /\ UNCHANGED web
  /\ StoreFrame

\* the backoff timer fires: mongoose.connect is called
DelayDone(k) ==
  /\ attempt[k].pc = "delay"
  /\ attempt' = [attempt EXCEPT ![k].pc = "connecting"]
  /\ db' = [db EXCEPT !.readyState = 2]
  /\ UNCHANGED web
  /\ StoreFrame

\* mongoose.connect resolves: isConnected = true, retryCount = 0, the event
\* handlers are registered once more, and the promise resolves with conn.
ConnectOk(k) ==
  /\ attempt[k].pc = "connecting"
  /\ attempt' = [attempt EXCEPT ![k] = [pc |-> "settled", outcome |-> "conn"]]
  /\ db' = [db EXCEPT !.isConnected = TRUE, !.retryCount = 0, !.readyState = 1,
                      !.lost = FALSE,
                      !.handlers = IF @ < MaxHandlers THEN @ + 1 ELSE @]
  /\ UNCHANGED web
  /\ StoreFrame

\* mongoose.connect rejects: the catch block runs.
ConnectFail(k) ==
  /\ attempt[k].pc = "connecting"
  /\ attempt' = [attempt EXCEPT ![k] =
                   [pc |-> "settled", outcome |-> Outcome(Caught(db))]]
  /\ db' = [Caught(db) EXCEPT !.readyState = IF @ = 2 THEN 0 ELSE @]
  /\ UNCHANGED web
  /\ StoreFrame

\* mongoose.connection emits 'error': every registered handler runs.
ErrorEvent ==
  /\ db.handlers > 0 /\ db.events < MaxEvents
  /\ db' = [db EXCEPT !.isConnected = FALSE, !.connectionPromise = NoPromise,
                      !.retryCount = @ + db.handlers, !.events = @ + 1]
  /\ UNCHANGED <<attempt, web>>
  /\ StoreFrame

\* The driver loses the connection and mongoose.connection emits
\* 'disconnected'.
DisconnectedEvent ==
  /\ db.handlers > 0 /\ db.events < MaxEvents
  /\ db.readyState = 1
  /\ db' = [db EXCEPT !.isConnected = FALSE, !.connectionPromise = NoPromise,
                      !.readyState = 0, !.lost = TRUE, !.events = @ + 1]
  /\ UNCHANGED <<attempt, web>>
  /\ StoreFrame

\* The driver regains the connection it lost and mongoose.connection emits
\* 'reconnected'.
ReconnectedEvent ==
  /\ db.handlers > 0 /\ db.events < MaxEvents
  /\ db.readyState = 0 /\ db.lost
  /\ db' = [db EXCEPT !.isConnected = TRUE, !.retryCount = 0,
                      !.readyState = 1, !.lost = FALSE, !.events = @ + 1]
  /\ UNCHANGED <<attempt, web>>
  /\ StoreFrame

\* what the awaited connectDB() call of request q came to
Awaited(q) ==
  IF web[q].awaiting = Resolved THEN "undefined"
  ELSE attempt[web[q].awaiting].outcome

\* the middleware calls next() whatever the second call resolved to
SettleLenient(q) ==
  /\ web[q].pc \in {"await1", "await2"}
  /\ Awaited(q) # "pending"
  /\ LET w == web[q]
         failed == [w EXCEPT !.pc = "done", !.errs = @ + 1, !.sent = @ + 1]
     IN web' = [web EXCEPT ![q] =
          IF w.kind = "dbTest" THEN [w EXCEPT !.pc = "done", !.sent = @ + 1]
          ELSE IF Awaited(q) = "throw" THEN failed
          ELSE IF Awaited(q) = "null" /\ w.pc = "await1" THEN [w EXCEPT !.pc = "wait"]
          ELSE [w EXCEPT !.pc = "walk", !.nexts = @ + 1, !.at = @ + 1]]
  /\ UNCHANGED <<db, attempt>>
  /\ StoreFrame

\* The awaited connectDB() settles.  The handler of /api/db-test goes on to
\* its queries and answers, or answers 500 from its catch block.  The
\* connection middleware waits and calls again on a first null, answers 500 on
\* a second null or on a rejection, and calls next() otherwise.
Settle(q) ==
  /\ web[q].pc \in {"await1", "await2"}
  /\ Awaited(q) # "pending"
  /\ LET w == web[q]
         failed == [w EXCEPT !.pc = "done", !.errs = @ + 1, !.sent = @ + 1]
     IN web' = [web EXCEPT ![q] =
          IF w.kind = "dbTest" THEN [w EXCEPT !.pc = "done", !.sent = @ + 1]
          ELSE IF Awaited(q) = "throw" THEN failed
          ELSE IF Awaited(q) = "null"
                 THEN IF w.pc = "await1" THEN [w EXCEPT !.pc = "wait"] ELSE failed
          ELSE [w EXCEPT !.pc = "walk", !.nexts = @ + 1, !.at = @ + 1]]
  /\ UNCHANGED <<db, attempt>>
  /\ StoreFrame

\* the two seconds of the connection middleware are over
WaitDone(q) ==
  /\ web[q].pc = "wait"
  /\ web' = [web EXCEPT ![q].pc = "call2"]
  /\ UNCHANGED <<db, attempt>>
  /\ StoreFrame

\* the attempts' steps and the driver's events
Driver ==
  \/ \E k \in Attempts : CloseDone(k) \/ DelayDone(k) \/ ConnectOk(k) \/ ConnectFail(k)
  \/ ErrorEvent \/ DisconnectedEvent \/ ReconnectedEvent

\* The store as the app finds it, with MONGODB_URI set, unset or malformed.
InitApp ==
  /\ balance0 = Balances10 /\ stock0 = Stocks(1)
  /\ balance = balance0 /\ stock = stock0 /\ log = << >>
  /\ req = [r \in Reqs |-> IdleReq] /\ resp = [r \in Reqs |-> NoResp]
  /\ pre = [balance |-> balance0, stock |-> stock0, log |-> << >>]
  /\ mail = [r \in Reqs |-> "none"]
  /\ emailConfigured = FALSE
  /\ now = 0 /\ made = 0
  /\ \E uri \in Uris : db = DbWith(uri)
  /\ attempt = [k \in Attempts |-> NoAttempt]
  /\ web = [q \in Webs |-> IdleWeb]

\* The serverless app as its layers are registered.
NextApp ==
  \/ \E q \in Webs : (\E path \in Paths : Request(q, path))
                       \/ Walk(q) \/ CallConnectDB(q) \/ Settle(q)
  \/ Driver

SpecApp == InitApp /\ [][NextApp]_vars

\* The connection middleware on its own, handed every request first.
NextConnect ==
  \/ \E q \in Webs : Invoke(q) \/ CallConnectDB(q) \/ Settle(q) \/ WaitDone(q) \/ Walk(q)
  \/ Driver

SpecConnect == InitApp /\ [][NextConnect]_vars

\* ================================================================ claims

Ids == DOMAIN req
AllDone == \A r \in Ids : req[r].pc = "done"
Answered(status) == {r \in Ids : resp[r].status = status}

\* What a handler in flight has committed to the store so far.
Committed(q) ==
  CASE q.pc = "saveRecipient" -> {"debit"}
    [] q.pc = "saveSendRow" -> {"debit", "credit"}
    [] q.pc = "email" -> {"debit", "credit", "row"}
    [] q.pc = "saveReward" -> {"debit"}
    [] q.pc = "saveRedeemRow" -> IF q.wdoc >= 0 THEN {"debit", "stock"} ELSE {"debit"}
    [] OTHER -> {}

\* The REDEEM rows of the collection that name reward rw.
RedeemRows(rw) ==
  {i \in 1..Len(log) : log[i].type = "REDEEM" /\ log[i].metadata.rewardId = rw}

\* What row does to the balance of account u according to the ledger.
RowEffect(row, u) ==
  (IF row.type = "SEND" /\ row.recipient = u THEN row.amount ELSE 0)
  - (IF row.type = "SEND" /\ row.sender = u THEN row.amount ELSE 0)
  - (IF row.type = "REDEEM" /\ row.sender = u THEN tokenCost[row.metadata.rewardId] ELSE 0)

\* The sum of RowEffect over the first n rows.
RECURSIVE LedgerUpTo(_, _)
LedgerUpTo(u, n) ==
  IF n = 0 THEN 0 ELSE LedgerUpTo(u, n - 1) + RowEffect(log[n], u)

\* No store call of any request has failed.
NoStoreFailure == Answered("ServerError") = {}

\* C1: in every reachable state, whatever the interleaving of transfers and
\* redemptions, the stored balance of every account is at least 0.
BalanceNonNegative == \A u \in Accounts : balance[u] >= 0

\* A transfer and a redemption of the same account race: both read the same
\* balance, the transfer's debit is stored and the redemption's is under way.
BalanceRaceReached ==
  \E r1, r2 \in Ids :
    /\ req[r1].op = "send" /\ req[r1].pc = "saveRecipient"
    /\ req[r2].op = "redeem" /\ req[r2].pc = "saveUser"
    /\ req[r1].caller = req[r2].caller
    /\ balance[req[r1].caller] = req[r1].udoc
    /\ req[r2].udoc + tokenCost[req[r2].reward] = req[r1].udoc + req[r1].amount

\* C2: account a holds 10 and three concurrent transfers of 4 each are made
\* from it.  In every interleaving the balance of a is never negative, and once
\* the three are answered exactly two have succeeded, exactly one has failed
\* with InsufficientFunds, and a holds 2.
TripleTransferOutcome ==
  /\ balance["a"] >= 0
  /\ AllDone =>
       /\ Cardinality(Answered("OK")) = 2
       /\ Cardinality(Answered("InsufficientFunds")) = 1
       /\ balance["a"] = 2

\* C3: one "coffee" is in stock and the users a and b, who can both afford it,
\* redeem it concurrently.  In every interleaving, once both are answered
\* exactly one has succeeded, the other has failed with RewardUnavailable, and
\* the stock is 0.
StockOneOutcome ==
  AllDone =>
    /\ Cardinality(Answered("OK")) = 1
    /\ Cardinality(Answered("RewardUnavailable")) = 1
    /\ stock["coffee"] = 0

\* C4: a transfer's debit, credit and SEND row are one atomic unit: in no state
\* that another request can observe is the sender's debit stored while the
\* recipient's credit or the row is not.
TransferAtomic ==
  \A r \in Ids :
    (req[r].op = "send" /\ "debit" \in Committed(req[r]))
      => {"credit", "row"} \subseteq Committed(req[r])

\* C5: a redemption's debit and stock decrement are one atomic unit: for a
\* reward of limited stock, in no state that another request can observe is
\* the user's balance debited without the stock decremented, or the stock
\* decremented without the balance debited.
RedeemAtomic ==
  \A r \in Ids :
    (req[r].op = "redeem" /\ req[r].reward \in Rewards /\ stock0[req[r].reward] # -1)
      => ("debit" \in Committed(req[r]) <=> "stock" \in Committed(req[r]))

\* C6: every failure path is all-or-nothing: a transfer or redemption that is
\* answered with a failure, a failed store write included, has committed
\* nothing, and one that is answered with success has committed its debit, its
\* credit or stock decrement, and its row.
AllOrNothing ==
  [][\A r \in Ids :
       (req[r].pc # "done" /\ req'[r].pc = "done") =>
         IF resp'[r].status = "OK"
           THEN /\ "debit" \in Committed(req[r])
                /\ Len(log') = Len(log) + 1 \/ "row" \in Committed(req[r])
           ELSE Committed(req[r]) = {}]_vars

\* C7: a successful transfer of A from X to another account Y that ran with no
\* concurrent request leaves balance(X) lower by exactly A, balance(Y) higher
\* by exactly A and every other account and every stock as they were, answers
\* with newBalance = the new balance(X), and adds exactly one row
\* {SEND, A, sender X, recipient Y} to the rows that were there.
TransferConserves ==
  [][\A r \in Ids :
       (req[r].op = "send" /\ resp[r].status # "OK" /\ resp'[r].status = "OK") =>
         LET X == req[r].caller
             Y == req[r].to
             A == req[r].amount
         IN /\ X # Y
            /\ balance' = [pre.balance EXCEPT ![X] = @ - A, ![Y] = @ + A]
            /\ stock' = pre.stock
            /\ resp'[r].newBalance = balance'[X]
            /\ Len(log') = Len(pre.log) + 1
            /\ SubSeq(log', 1, Len(pre.log)) = pre.log
            /\ LET row == log'[Len(log')] IN
                 /\ row.type = "SEND" /\ row.status = "COMPLETED"
                 /\ row.amount = A /\ row.sender = X /\ row.recipient = Y]_vars

\* a held 20 and b held 5; a transfer of 7 from a to b has been answered with
\* success: a holds 13, b holds 12 and the one row is that transfer.
TransferSevenDone ==
  /\ balance0 = Balances20
  /\ Cardinality(Answered("OK")) = 1
  /\ Len(log) = 1 /\ log[1].type = "SEND" /\ log[1].amount = 7
  /\ log[1].sender = "a" /\ log[1].recipient = "b"
  /\ balance["a"] = 13 /\ balance["b"] = 12 /\ balance["c"] = 3

\* C8: no lost updates: once every request is answered, none of them having
\* met a failing store call, the balance of every account is its initial
\* balance plus the SEND amounts it received, minus the SEND amounts it sent,
\* minus the tokenCost of its REDEEM rows.
NoLostUpdate ==
  (AllDone /\ NoStoreFailure) =>
    \A u \in Accounts : balance[u] = balance0[u] + LedgerUpTo(u, Len(log))

\* C9: in every reachable state the stock of every reward is -1 or at least 0,
\* and the stock of a reward that started limited is at least 0.
StockInRange ==
  \A rw \in Rewards :
    /\ stock[rw] = -1 \/ stock[rw] >= 0
    /\ stock0[rw] >= 0 => stock[rw] >= 0

\* Two redemptions of the limited reward have both gone through, the second
\* writing the stock it derived from what it read before the first one's write.
StaleStockWritten ==
  /\ Cardinality(RedeemRows("coffee")) = 2
  /\ stock["coffee"] = stock0["coffee"] - 1

\* C10: no double redemption: for a reward of initial limited stock S the
\* number of REDEEM rows naming it never exceeds S, and once every request is
\* answered, none of them having met a failing store call, its stock is S
\* minus that number.
NoDoubleRedemption ==
  \A rw \in Rewards :
    stock0[rw] >= 0 =>
      /\ Cardinality(RedeemRows(rw)) <= stock0[rw]
      /\ (AllDone /\ NoStoreFailure) =>
           stock[rw] = stock0[rw] - Cardinality(RedeemRows(rw))

\* C11: a reward whose stock is -1 (unlimited) has stock -1 in every reachable
\* state, whatever redemptions have gone through, one after another or
\* together, and no handler redeeming it ever issues a save of its stock.
UnlimitedStockKept ==
  \A rw \in Rewards :
    stock0[rw] = -1 =>
      /\ stock[rw] = -1
      /\ \A r \in Ids : req[r].reward = rw => req[r].pc # "saveReward"

\* The unlimited reward "gift" has been redeemed twice with success.
UnlimitedRedeemedTwice ==
  /\ Cardinality(RedeemRows("gift")) = 2
  /\ Cardinality(Answered("OK")) = 2
  /\ stock["gift"] = -1

\* C12: a transfer whose recipient e-mail resolves to the sender's own account
\* is answered with InvalidSelfTransfer whatever the sender's balance, a
\* balance smaller than the amount included (a failed store call apart), and
\* no step of it changes a balance or the transaction log.
SelfTransferRejected ==
  [][\A r \in Ids :
       (/\ req[r].op = "send"
        /\ req[r].pc \in {"findSender", "findRecipient"}
        /\ req[r].caller \in Accounts
        /\ IsSelf(req[r].caller, FindByEmail(req[r].to))
        /\ req'[r] # req[r])
         => /\ UNCHANGED <<balance, log>>
            /\ req'[r].pc \in {"findRecipient", "done"}
            /\ req'[r].pc = "done" =>
                 resp'[r].status \in {"InvalidSelfTransfer", "ServerError"}]_vars

\* C13: a transfer fails with NotFound when the sender or the recipient
\* account is absent, with InsufficientFunds when the sender's balance is
\* smaller than the amount, with a validation error naming the amount when the
\* amount is <= 0, and with a validation error naming the message when the
\* trimmed message is empty or longer than 500 characters; each of these
\* answers is given only in its case, and a transfer so answered has changed
\* no balance and written no row (a failed store call apart).
TransferFailures ==
  [][\A r \in Ids :
       (req[r].op = "send" /\ req'[r] # req[r] /\ resp'[r].status # "ServerError") =>
         LET q == req[r]
             a == resp'[r]
             failed == req'[r].pc = "done" /\ a.status # "OK"
         IN /\ q.pc = "validate" =>
                 /\ q.amount <= 0 <=> (a.status = "ValidationError" /\ "amount" \in a.errors)
                 /\ (q.msgLen = 0 \/ q.msgLen > 500)
                      <=> (a.status = "ValidationError" /\ "message" \in a.errors)
                 /\ failed => a.status = "ValidationError"
            /\ q.pc = "findSender" =>
                 /\ q.caller \notin Accounts <=> a.status = "NotFound"
                 /\ (q.caller \in Accounts /\ balance[q.caller] < q.amount)
                      <=> a.status = "InsufficientFunds"
                 /\ failed => a.status \in {"NotFound", "InsufficientFunds"}
            /\ q.pc = "findRecipient" =>
                 /\ q.to \notin Accounts <=> a.status = "NotFound"
                 /\ failed => a.status \in {"NotFound", "InvalidSelfTransfer"}
            /\ failed =>
                 /\ q.pc \in {"validate", "findSender", "findRecipient"}
                 /\ UNCHANGED <<balance, stock, log>>]_vars

\* Two transfers have failed, one on its amount of 0 and one on a balance
\* smaller than its amount; balances and rows are as they were.
TransferFailuresSeen ==
  /\ \E r \in Ids : /\ resp[r].status = "ValidationError"
                    /\ resp[r].errors = {"amount"}
  /\ \E r \in Ids : resp[r].op = "send" /\ resp[r].status = "InsufficientFunds"
  /\ balance = balance0
  /\ log = << >>

\* C14: a redemption fails with NotFound when the reward or the user is
\* absent, with RewardUnavailable when the reward is inactive or its stock is
\* 0, and with InsufficientFunds when the user's balance is smaller than the
\* reward's tokenCost; each of these answers is given only in its case, and a
\* redemption so answered has changed no balance, no stock and no row (a failed
\* store call apart).
RedeemFailures ==
  [][\A r \in Ids :
       (req[r].op = "redeem" /\ req'[r] # req[r] /\ resp'[r].status # "ServerError") =>
         LET q == req[r]
             a == resp'[r]
             failed == req'[r].pc = "done" /\ a.status # "OK"
         IN /\ q.pc = "findReward" =>
                 /\ q.reward \notin Rewards <=> a.status = "NotFound"
                 /\ (q.reward \in Rewards
                       /\ (~isActive[q.reward] \/ stock[q.reward] = 0))
                      <=> a.status = "RewardUnavailable"
                 /\ failed => a.status \in {"NotFound", "RewardUnavailable"}
            /\ q.pc = "findUser" =>
                 /\ q.caller \notin Accounts <=> a.status = "NotFound"
                 /\ (q.caller \in Accounts /\ balance[q.caller] < tokenCost[q.reward])
                      <=> a.status = "InsufficientFunds"
                 /\ failed => a.status \in {"NotFound", "InsufficientFunds"}
            /\ failed =>
                 /\ q.pc \in {"findReward", "findUser"}
                 /\ UNCHANGED <<balance, stock, log>>]_vars

\* Two redemptions have failed, one on an unavailable reward and one on a
\* balance smaller than the cost; balances, stocks and rows are as they were.
RedeemFailuresSeen ==
  /\ \E r \in Ids : resp[r].op = "redeem" /\ resp[r].status = "RewardUnavailable"
  /\ \E r \in Ids : resp[r].op = "redeem" /\ resp[r].status = "InsufficientFunds"
  /\ balance = balance0
  /\ stock = stock0
  /\ log = << >>

\* C15: every successful transfer stores exactly one row, of type SEND and
\* status COMPLETED, with the caller as sender: the SEND rows are as many as
\* the transfers answered with success or awaiting only their notification, a
\* transfer handler writes to the log in one step only, and what it writes
\* there is that one row.  No row of type RECEIVE is ever in the log, and the
\* row is among those the history filter selects for the recipient.
OneSendRow ==
  /\ [](/\ \A i \in 1..Len(log) : log[i].type # "RECEIVE"
        /\ Cardinality({i \in 1..Len(log) : log[i].type = "SEND"})
             = Cardinality({r \in Ids : resp[r].op = "send" /\ resp[r].status = "OK"})
                 + Cardinality({r \in Ids : req[r].pc = "email"}))
  /\ [][\A r \in Ids :
          (req[r].op = "send" /\ req'[r] # req[r]) =>
            /\ IF req[r].pc = "saveSendRow" /\ resp'[r].status # "ServerError"
                 THEN /\ Len(log') = Len(log) + 1
                      /\ SubSeq(log', 1, Len(log)) = log
                      /\ LET row == log'[Len(log')] IN
                           /\ row.type = "SEND" /\ row.status = "COMPLETED"
                           /\ row.sender = req[r].caller
                           /\ row.recipient = FindByEmail(req[r].to)
                           /\ row.amount = req[r].amount
                      /\ \A u \in Accounts :
                           u = FindByEmail(req[r].to) => Len(log') \in UserRows(u)'
                 ELSE log' = log
            /\ resp'[r].status = "OK" => req[r].pc \in {"saveSendRow", "email"}]_vars

\* One transfer to b has been answered with success: the log holds its SEND
\* row and nothing else, and the history filter selects that row for b.
TransferSeenByRecipient ==
  /\ \E r \in Ids : resp[r].op = "send" /\ resp[r].status = "OK"
  /\ Len(log) = 1
  /\ log[1].type = "SEND" /\ log[1].recipient = "b"
  /\ UserRows("b") = {1}
  /\ UserRows(log[1].sender) = {1}

\* C16: a failure of a transfer's notification never fails the transfer and
\* never rolls it back: in the step in which the notification fails, or is
\* skipped for want of credentials, the caller is answered with success and
\* the sender's new balance, no balance, stock or earlier row changes, the
\* transfer's SEND row is in the log, and the handler is finished; the outcome
\* of a notification, once recorded, never changes, so it is not tried again.
NotificationFailureTolerated ==
  [][\A r \in Ids :
       /\ (mail'[r] \in {"failed", "skipped"} /\ mail[r] \notin {"failed", "skipped"}) =>
            /\ resp'[r].op = "send"
            /\ resp'[r].status = "OK"
            /\ resp'[r].newBalance = req[r].udoc
            /\ req'[r].pc = "done"
            /\ balance' = balance
            /\ stock' = stock
            /\ SubSeq(log', 1, Len(log)) = log
            /\ \E i \in 1..Len(log') :
                 /\ log'[i].type = "SEND" /\ log'[i].status = "COMPLETED"
                 /\ log'[i].sender = req[r].caller
                 /\ log'[i].recipient = FindByEmail(req[r].to)
                 /\ log'[i].amount = req[r].amount
       /\ mail[r] \in {"sent", "failed", "skipped"} => mail'[r] = mail[r]]_vars

\* The notification of a transfer failed at the transport; the transfer was
\* answered with success and its row and its debit are in the store.
NotificationFailed ==
  \E r \in Ids :
    /\ mail[r] = "failed"
    /\ resp[r].op = "send" /\ resp[r].status = "OK"
    /\ Len(log) = 1 /\ log[1].type = "SEND"
    /\ balance[log[1].sender] = balance0[log[1].sender] - log[1].amount

\* C17: a transfer's notification is emitted only after its debit, its credit
\* and its row have all committed: sendEmail is called in the step in which
\* the row's save resolves, after the debit and the credit were stored.  No
\* notification is emitted for a transfer that failed validation or whose
\* writes did not all commit: a handler for which sendEmail was called is
\* awaiting it or has answered with success.
NotificationAfterCommit ==
  /\ [](\A r \in Ids :
          mail[r] # "none" =>
            \/ req[r].pc = "email" /\ mail[r] = "pending"
            \/ resp[r].op = "send" /\ resp[r].status = "OK")
  /\ [][\A r \in Ids :
          (mail[r] = "none" /\ mail'[r] # "none") =>
            /\ req[r].pc = "saveSendRow"
            /\ Committed(req[r]) = {"debit", "credit"}
            /\ Len(log') = Len(log) + 1
            /\ SubSeq(log', 1, Len(log)) = log
            /\ log'[Len(log')].type = "SEND"
            /\ log'[Len(log')].sender = req[r].caller
            /\ log'[Len(log')].recipient = FindByEmail(req[r].to)
            /\ log'[Len(log')].amount = req[r].amount]_vars

\* The notification of a committed transfer has been delivered, and the other
\* handler's transfer, which failed, emitted none.
NotificationDelivered ==
  \E r, q \in Ids :
    /\ mail[r] = "sent" /\ resp[r].status = "OK"
    /\ mail[q] = "none" /\ resp[q].op = "send"
    /\ resp[q].status \in {"ValidationError", "InsufficientFunds", "ServerError"}
    /\ Len(log) = 1

\* C18: notification dispatch is fire-and-forget: a committed transfer is
\* answered without waiting for its notification, so in every state in which
\* the notification of a transfer is still in flight the transfer's response
\* has been sent.
FireAndForget ==
  \A r \in Ids :
    mail[r] = "pending" => resp[r].op = "send" /\ resp[r].status = "OK"

\* C19: every successful redemption of a reward of cost c by user U appends
\* exactly one row, with type REDEEM, amount -c, sender = recipient = U and
\* the metadata {rewardId, rewardName, redemptionCode} of that reward (the
\* handler writes to the log in the step that answers with success and in no
\* other), and debits U's balance by exactly c: once every request is
\* answered, none of them a transfer that wrote a row and none having met a
\* failing store call, every account holds its initial balance minus the
\* tokenCost of each of its REDEEM rows.
RedeemRecorded ==
  /\ []((/\ AllDone
         /\ NoStoreFailure
         /\ \A i \in 1..Len(log) : log[i].type = "REDEEM") =>
          \A U \in Accounts : balance[U] = balance0[U] + LedgerUpTo(U, Len(log)))
  /\ [][\A r \in Ids :
          (req[r].op = "redeem" /\ req'[r] # req[r] /\ resp'[r].status # "ServerError") =>
            LET U == req[r].caller
                rw == req[r].reward
            IN IF req[r].pc = "saveRedeemRow"
                 THEN /\ resp'[r].status = "OK"
                      /\ Len(log') = Len(log) + 1
                      /\ SubSeq(log', 1, Len(log)) = log
                      /\ LET row == log'[Len(log')] IN
                           /\ row.type = "REDEEM"
                           /\ row.amount = -tokenCost[rw]
                           /\ row.sender = U /\ row.recipient = U
                           /\ row.metadata.rewardId = rw
                           /\ row.metadata.rewardName = rewardName[rw]
                           /\ row.metadata.redemptionCode = redemptionCode[rw]
                 ELSE log' = log /\ resp'[r].status # "OK"]_vars

\* C20: every stored transaction has an amount whose sign matches its type:
\* amount > 0 for SEND, RECEIVE and PURCHASE, amount < 0 for REDEEM.  A
\* document violating this is rejected when it is saved and never stored: its
\* save leaves the log as it was, and the save of a document that conforms
\* appends it.
AmountSignMatchesType ==
  /\ [](\A i \in 1..Len(log) :
          /\ log[i].type \in {"SEND", "RECEIVE", "PURCHASE"} => log[i].amount > 0
          /\ log[i].type = "REDEEM" => log[i].amount < 0)
  /\ [][\A r \in Ids :
          (req[r].pc = "saveRow" /\ req'[r].pc = "done") =>
            IF \/ req[r].type = "REDEEM" /\ req[r].amount < 0
               \/ req[r].type # "REDEEM" /\ req[r].amount > 0
              THEN /\ Len(log') = Len(log) + 1
                   /\ SubSeq(log', 1, Len(log)) = log
                   /\ log'[Len(log')].type = req[r].type
                   /\ log'[Len(log')].amount = req[r].amount
              ELSE /\ log' = log
                   /\ resp'[r].status = "Rejected"]_vars

\* One document has been rejected at its save and is not in the log, which
\* holds the PURCHASE document whose save went through.
BadRowRejected ==
  /\ \E r \in Ids : resp[r].op = "save" /\ resp[r].status = "Rejected"
  /\ Len(log) = 1
  /\ log[1].type = "PURCHASE" /\ log[1].amount = 1

\* C21: the transaction log is append-only. No step of a transfer, a
\* redemption, or of the history, leaderboard, profile, balance and recent
\* reads changes a field of a stored row or removes one: the log before the
\* step is a prefix of the log after it.
LogAppendOnly ==
  [][/\ Len(log') >= Len(log)
     /\ \A i \in 1..Len(log) : log'[i] = log[i]]_vars

\* Two rows are stored, and the history has been read twice since.
LogReadTwice ==
  /\ Len(log) = 2
  /\ resp[3].op = "history" /\ resp[3].status = "OK"
  /\ resp[4].op = "history" /\ resp[4].status = "OK"

\* C22: no row is ever stored with status FAILED or PENDING. Every stored row
\* has status COMPLETED, and the rows are exactly those of the transfers and
\* redemptions that succeeded (answered, or waiting on the notification): a
\* request that failed, at validation or later, has written no row.
OnlyCompletedRows ==
  /\ \A i \in 1..Len(log) : log[i].status = "COMPLETED"
  /\ Len(log) = Cardinality({r \in Ids :
                    \/ req[r].pc = "email"
                    \/ resp[r].op \in {"send", "redeem"} /\ resp[r].status = "OK"})

\* One redemption was refused for insufficient balance next to one that was
\* recorded.
RefusedNextToRecorded ==
  /\ \E r \in Ids : resp[r].op = "redeem" /\ resp[r].status = "InsufficientFunds"
  /\ Len(log) = 1
  /\ log[1].type = "REDEEM"

\* The documents ids ordered by (createdAt descending, id descending).
ByCreatedAtThenId(ids) ==
  CHOOSE s \in [1..Cardinality(ids) -> ids] :
    \A i, j \in 1..Cardinality(ids) :
      i < j => \/ Doc(s[i]).createdAt > Doc(s[j]).createdAt
               \/ Doc(s[i]).createdAt = Doc(s[j]).createdAt /\ s[i] > s[j]

\* C23: getUserHistory(userId, limit, offset) returns the transactions whose
\* sender or recipient is userId ordered by (createdAt descending, id
\* descending), without the first offset rows and at most limit of them; two
\* rows of equal createdAt always come in the same relative order.
HistoryOrdered ==
  [][\A r \in Ids :
       req[r].pc = "historyFind" /\ req'[r].pc = "historyCount"
         => req'[r].rows =
              SkipLimit(ByCreatedAtThenId(DocIds(UserRows(req[r].caller))),
                        req[r].limit, (req[r].page - 1) * req[r].limit)]_vars

\* C24: getHistory and getBalance are side-effect-free. No step of a history
\* or balance request changes a balance, a stock or the log, and two history
\* requests with the same (userId, page, limit) that read the same data hold
\* the same page.
ReadsPureAndStable ==
  /\ [][\A r \in Ids :
          req'[r] # req[r] /\ (req[r].op \in {"history", "balance"}
                               \/ req'[r].op \in {"history", "balance"})
            => balance' = balance /\ stock' = stock /\ log' = log]_vars
  /\ [](\A r1, r2 \in Ids :
          /\ req[r1].pc = "historyCount" /\ req[r2].pc = "historyCount"
          /\ req[r1].caller = req[r2].caller
          /\ req[r1].page = req[r2].page /\ req[r1].limit = req[r2].limit
          /\ req[r1].seen = req[r2].seen
          => req[r1].rows = req[r2].rows)

\* The order of the account ids.
IdRank(u) == CASE u = "a" -> 1 [] u = "b" -> 2 [] u = "c" -> 3 [] OTHER -> 4

\* The groups ordered by (total descending, account id ascending).
ByTotalThenId(groups) ==
  CHOOSE s \in [1..Cardinality(groups) -> groups] :
    \A i, j \in 1..Cardinality(groups) :
      i < j => \/ s[i].total > s[j].total
               \/ s[i].total = s[j].total /\ IdRank(s[i].id) < IdRank(s[j].id)

\* C25: the leaderboard for type sent (received) lists, for each account, the
\* sum of amount over the SEND rows it sent (received), REDEEM rows left out,
\* ordered by sum descending with ties broken by account id ascending, and
\* holds the first limit entries of that order.
LeaderboardOrdered ==
  [][\A r \in Ids :
       req[r].pc = "leaderboard" /\ resp'[r].status = "OK"
         => resp'[r].body.leaderboard =
              SkipLimit(ByTotalThenId(Groups(IF req[r].type = "sent"
                                               THEN "sender" ELSE "recipient")),
                        req[r].limit, 0)]_vars

NoStaleWrite ==
  [][\A r \in Ids :
       /\ req[r].pc = "saveSender" /\ req'[r].pc = "saveRecipient"
            => balance'[req[r].caller] = balance[req[r].caller] - req[r].amount
       /\ req[r].pc = "saveRecipient" /\ req'[r].pc = "saveSendRow"
            => \A u \in Accounts :
                 u = FindByEmail(req[r].to) => balance'[u] = balance[u] + req[r].amount
       /\ req[r].pc = "saveUser" /\ req'[r].pc \in {"saveReward", "saveRedeemRow"}
            => balance'[req[r].caller]
                 = balance[req[r].caller] - tokenCost[req[r].reward]
       /\ req[r].pc = "saveReward" /\ req'[r].pc = "saveRedeemRow"
            => stock'[req[r].reward] = stock[req[r].reward] - 1]_vars

\* C28: every request runs to completion or failure. A request in flight is
\* eventually over with a response, success or error; a handler is over
\* exactly when it has responded, and a response once sent is never followed
\* by a second one.
EveryRequestAnswered ==
  /\ \A r \in Reqs :
       (req[r].pc \notin {"idle", "done"})
         ~> (req[r].pc = "done" /\ resp[r].status # "none")
  /\ [](\A r \in Reqs : req[r].pc = "done" <=> resp[r].status # "none")
  /\ [][\A r \in Reqs : resp[r].status # "none" => resp'[r] = resp[r]]_vars

\* A transfer succeeded and a history request failed on a store error.
AnsweredBothWays ==
  /\ resp[1].op = "send" /\ resp[1].status = "OK"
  /\ resp[2].op = "history" /\ resp[2].status = "ServerError"
  /\ AllDone

\* The sum of the balances bal of the accounts.
RECURSIVE Supply(_, _)
Supply(bal, accounts) ==
  IF accounts = {} THEN 0
  ELSE LET u == CHOOSE x \in accounts : TRUE
       IN bal[u] + Supply(bal, accounts \ {u})

\* The sum of tokenCost over the REDEEM rows among the first n rows.
RECURSIVE Redeemed(_)
Redeemed(n) ==
  IF n = 0 THEN 0
  ELSE Redeemed(n - 1)
         + (IF log[n].type = "REDEEM" THEN tokenCost[log[n].metadata.rewardId] ELSE 0)

\* C29: transfers preserve the total token supply. Once every request in
\* flight has completed, none on a store error, the sum of all balances is the
\* initial sum less the tokenCost of every REDEEM row.
SupplyPreserved ==
  AllDone /\ NoStoreFailure
    => Supply(balance, Accounts) = Supply(balance0, Accounts) - Redeemed(Len(log))

\* The rows of a page as a set.
PageRows(q) == {q.rows[i] : i \in 1..Len(q.rows)}

\* C30: the history endpoint with page p >= 1 and limit L >= 1 answers with
\* totalTransactions = T, the number of rows where the user is sender or
\* recipient, totalPages = ceil(T / L), hasNextPage = (p * L < T) and
\* hasPrevPage = (p > 1); a page holds as many rows as positions (p - 1) * L + 1
\* .. p * L of a history of the rows read allow; and on unchanged data two
\* different pages of the same user and limit share no row, while pages
\* 1..totalPages together hold every row.
HistoryPaginated ==
  /\ [][\A r \in Ids :
          req[r].pc = "historyCount" /\ resp'[r].status = "OK"
            => LET p == req[r].page
                   L == req[r].limit
                   T == Cardinality(UserRows(req[r].caller))
                   b == resp'[r].body
               IN /\ b.transactions = req[r].rows
                  /\ b.currentPage = p
                  /\ b.totalTransactions = T
                  /\ b.totalPages * L >= T /\ (b.totalPages - 1) * L < T
                  /\ b.hasNextPage = (p * L < T)
                  /\ b.hasPrevPage = (p > 1)]_vars
  /\ [][\A r \in Ids :
          req[r].pc = "historyFind" /\ req'[r].pc = "historyCount"
            => LET first == (req[r].page - 1) * req[r].limit + 1
                   last == req[r].page * req[r].limit
                   T == Cardinality(UserRows(req[r].caller))
               IN /\ PageRows(req'[r]) \subseteq DocIds(UserRows(req[r].caller))
                  /\ Len(req'[r].rows)
                       = Cardinality({k \in first..last : k <= T})]_vars
  /\ [](\A r1, r2 \in Ids :
          /\ req[r1].pc = "historyCount" /\ req[r2].pc = "historyCount"
          /\ req[r1].caller = req[r2].caller /\ req[r1].limit = req[r2].limit
          /\ req[r1].seen = req[r2].seen
          /\ req[r1].page # req[r2].page
          => LET T == Cardinality({i \in UserRows(req[r1].caller) : i <= req[r1].seen})
             IN /\ PageRows(req[r1]) \cap PageRows(req[r2]) = {}
                /\ ({req[r1].page, req[r2].page} = 1..Ceil(T, req[r1].limit)
                      => Cardinality(PageRows(req[r1]) \cup PageRows(req[r2])) = T))

\* C31: in the serverless app the store is connected on the first request. A
\* request whose route handler has run was passed on by the connection
\* middleware before, so a connection attempt had been made by then.
ConnectedBeforeRoutes ==
  \A q \in Webs : web[q].ran => web[q].nexts >= 1 /\ db.started >= 1

\* the attempts in progress
InFlight == {k \in Attempts : attempt[k].pc \in {"closing", "delay", "connecting"}}

\* C32: connectDB is single-flight. At most one connection attempt is in
\* progress at any time, and a call made while an attempt is in progress
\* starts none and awaits that attempt's promise.
SingleFlight ==
  /\ [](Cardinality(InFlight) <= 1)
  /\ [][\A q \in Webs :
          web[q].pc \in {"call1", "call2"} /\ web'[q].pc \in {"await1", "await2"}
            /\ InFlight # {}
            => InFlight' = InFlight /\ web'[q].awaiting \in InFlight]_vars

\* C33: each failed connection attempt, whatever its cause, increments
\* retryCount by 1 and leaves connectionPromise null; its promise resolves to
\* null while retryCount is below MAX_RETRIES and rejects once it has reached
\* it.
FailedAttemptCounted ==
  [][\A k \in Attempts :
       attempt[k].outcome = "pending" /\ attempt'[k].outcome \in {"null", "throw"}
         => /\ db'.retryCount = db.retryCount + 1
            /\ db'.connectionPromise = NoPromise
            /\ attempt'[k].outcome = "null" <=> db'.retryCount < MAX_RETRIES]_vars

\* C34: connectDB recovers after failures. A call made when no attempt is in
\* flight skips connecting only when isConnected is true and readyState is 1,
\* and starts a fresh attempt otherwise; an attempt that succeeds leaves
\* isConnected true and retryCount 0.
Recovers ==
  [][/\ \A q \in Webs :
          web[q].pc \in {"call1", "call2"} /\ web'[q].pc \in {"await1", "await2"}
            /\ InFlight = {}
            => IF db.isConnected /\ db.readyState = 1
                 THEN web'[q].awaiting = Resolved /\ db'.started = db.started
                 ELSE db'.started = db.started + 1
                        /\ web'[q].awaiting = db'.started
     /\ \A k \in Attempts :
          attempt[k].outcome = "pending" /\ attempt'[k].outcome = "conn"
            => db'.isConnected /\ db'.retryCount = 0]_vars

\* C35: the connection middleware calls next() only if a connectDB call
\* resolved without null; after a first null it calls connectDB exactly once
\* more; and if that resolves to null too, or a call throws, it sends exactly
\* one 500 and never calls next().
MiddlewareGuards ==
  /\ [][\A q \in Webs :
          web[q].kind = "connect" /\ web[q].pc \in {"await1", "await2"}
            /\ web'[q].pc # web[q].pc
            => LET got == Awaited(q)
                   second == web[q].pc = "await2"
               IN /\ got \in {"undefined", "conn"}
                       => web'[q].nexts = 1 /\ web'[q].errs = 0
                  /\ got = "throw" \/ (got = "null" /\ second)
                       => web'[q].nexts = 0 /\ web'[q].errs = 1
                            /\ web'[q].pc = "done"
                  /\ got = "null" /\ ~second
                       => web'[q].nexts = 0 /\ web'[q].errs = 0
                            /\ web'[q].pc = "wait"]_vars
  /\ [](\A q \in Webs :
          web[q].kind = "connect"
            => /\ web[q].nexts + web[q].errs <= 1
               /\ web[q].calls <= 2
               /\ web[q].pc = "done" => web[q].nexts + web[q].errs = 1
               /\ web[q].pc \in {"wait", "call2", "await2"}
                    => web[q].calls = (IF web[q].pc = "await2" THEN 2 ELSE 1))

\* One request was passed on after its second call, one was refused after two
\* nulls.
PassedAndRefused ==
  \E p, q \in Webs :
    /\ web[p].pc = "done" /\ web[p].calls = 2 /\ web[p].nexts = 1
    /\ web[q].pc = "done" /\ web[q].calls = 2 /\ web[q].errs = 1

\* C36: sendEmail never throws.  With EMAIL_USER or EMAIL_PASS unset it hands
\* nothing to the transport and resolves at once to {success: false}; otherwise
\* it awaits sendMail once and resolves to {success: true} when sendMail
\* succeeded and to {success: false, error} when it failed; in every case the
\* caller goes on to its answer, and the outcome is final.
SendEmailNeverThrows ==
  /\ \A configured, delivered \in BOOLEAN :
       /\ sendEmail(configured, delivered) \in {"skipped", "sent", "failed"}
       /\ ~configured => sendEmail(configured, delivered) = "skipped"
       /\ sendEmail(configured, delivered) = "sent" <=> configured /\ delivered
       /\ sendEmail(configured, delivered) = "failed" <=> configured /\ ~delivered
  /\ [][\A r \in Ids :
          mail'[r] # mail[r] =>
            /\ mail[r] \in {"none", "pending"}
            /\ mail[r] = "none" =>
                 mail'[r] = (IF emailConfigured THEN "pending" ELSE "skipped")
            /\ mail[r] = "pending" => mail'[r] \in {"sent", "failed"}
            /\ mail'[r] \in {"sent", "failed"} => emailConfigured /\ req[r].pc = "email"
            /\ mail'[r] \in {"skipped", "sent", "failed"} =>
                 /\ resp[r] = NoResp
                 /\ resp'[r].op = "send" /\ resp'[r].status = "OK"
                 /\ req'[r].pc = "done"]_vars

\* Of two transfers, one notification was delivered and the other failed at
\* the transport; both transfers were answered with success.
DeliveredAndFailed ==
  \E r, q \in Ids :
    /\ mail[r] = "sent" /\ resp[r].status = "OK"
    /\ mail[q] = "failed" /\ resp[q].status = "OK"

\* C37: whatever the value of type, the leaderboard endpoint answers with
\* per-account totals of SEND rows or with no data at all: every entry of a
\* leaderboard it returns is an account with the sum of the SEND rows that
\* account sent or received, none is a transaction row, none counts a REDEEM
\* row, and a type other than sent and received is answered without a body.
LeaderboardOnlyTotals ==
  [][\A r \in Ids :
       req[r].pc = "leaderboard" /\ req'[r].pc # "leaderboard" =>
         /\ resp'[r].op = "leaderboard"
         /\ resp'[r].status \in {"OK", "ServerError"}
         /\ resp'[r].status = "ServerError" => resp'[r].body = NoBody
         /\ req[r].type \notin {"sent", "received"} => resp'[r].body = NoBody
         /\ resp'[r].status = "OK" =>
              LET top == resp'[r].body.leaderboard IN
              /\ resp'[r].body.type = req[r].type
              /\ \A i \in 1..Len(top) :
                   /\ top[i] \in Groups("sender") \cup Groups("recipient")
                   /\ top[i] \notin {log[n] : n \in 1..Len(log)}
                   /\ top[i].id \in Accounts
                   /\ top[i].total \in
                        {GroupTotal(key, top[i].id, Len(log)) :
                           key \in {"sender", "recipient"}}
                   /\ \A n \in 1..Len(log) :
                        log[n].type = "REDEEM" => top[i].total # log[n].amount]_vars

\* Account a has redeemed a reward and has sent a transfer; the
\* leaderboard that was returned lists a with a total, and the log holds the
\* REDEEM row of a.
TotalsBesideRedeemRow ==
  /\ \E n \in 1..Len(log) : log[n].type = "REDEEM" /\ log[n].sender = "a"
  /\ \E r \in Ids :
       /\ resp[r].op = "leaderboard" /\ resp[r].status = "OK"
       /\ resp[r].body.type = "sent"
       /\ \E i \in 1..Len(resp[r].body.leaderboard) :
            resp[r].body.leaderboard[i].id = "a"

====
